---------------------------- MODULE Spec2Model ----------------------------
(***************************************************************************)
(* Room lifecycle and join admission of app/model.py.                      *)
(*                                                                         *)
(* The store is the relational database behind `engine`: the tables        *)
(* `user`, `room` and `room_user`.  Every request runs in one transaction  *)
(* (`with engine.begin() as conn`).  A transaction of one statement       *)
(* (start_room, update_user) and a transaction that only reads (list_room, *)
(* wait_room) takes effect at one instant.  join_room is modelled          *)
(* statement by statement, because its SELECT ... FOR UPDATE holds the row *)
(* lock of the room from that statement until the transaction ends;        *)
(* create_room and create_user are modelled in two steps, because the      *)
(* AUTO_INCREMENT key of an INSERT is handed out at the INSERT while the    *)
(* row becomes visible at the commit.                                      *)
(***************************************************************************)
EXTENDS Integers, FiniteSets, TLC

VARIABLES
    user_table, \* table `user`: the committed rows
    auto_increment, \* the next AUTO_INCREMENT key of table `room` and of table `user`
    room,       \* table `room`: room_id -> row, the committed rows
    room_user,  \* table `room_user`: the committed rows
    pc,         \* per connection: where its transaction stands
    args,       \* per connection: the arguments of its call
    user,       \* per connection: local `user` of _join_room, _create_room
    row,        \* per connection: local `row` of the locking read, or the
                \* row it has inserted into `room` or `user`, uncommitted
    snap,       \* per connection: its read view of room_user (see ReadView)
    ins,        \* per connection: the room_user rows it has inserted, uncommitted
    last        \* the request that has just finished: its arguments and its result

vars == <<user_table, auto_increment, room, room_user, pc, args, user, row, snap, ins, last>>

---------------------------------------------------------------------------
(* Bounds of the model *)

NProcs == 2         \* join_room transactions open at the same time
NUsers == 2         \* users whose tokens the requests of Spec present
MaxRooms == 2       \* rooms created in one run of Spec

(* Program constants *)

MAX_ROOM_USER_COUNT == 4
LIVE_ID_NULL == 0
Normal == 1
Hard == 2
LiveDifficulty == {Normal, Hard}

None == [none |-> TRUE]

Procs == 1..NProcs

---------------------------------------------------------------------------
(* Table `user` *)

TokenOf(u) == <<"token", u>>
BadToken == <<"token", 0>>

(* _create_users(): for i in range(10), the ids are the AUTO_INCREMENT keys *)
UserIds == 1..10

(* The users that exist before the first room request: user i of the      *)
(* fixture, named room_user_{i} with leader_card_id 1000, has id i + 1.     *)
create_users ==
    { [id |-> u, token |-> TokenOf(u), name |-> <<"room_user", u - 1>>, leader_card_id |-> 1000]
        : u \in UserIds }

NoResultFound == [raised |-> "NoResultFound"]
MultipleResultsFound == [raised |-> "MultipleResultsFound"]

(* Result.one(): the only row, NoResultFound on none, MultipleResultsFound *)
(* on two or more.                                                         *)
One(rows) ==
    IF rows = {} THEN NoResultFound
    ELSE IF Cardinality(rows) > 1 THEN MultipleResultsFound
    ELSE CHOOSE r \in rows : TRUE

get_user_by_token(token) ==
    LET r == One({ u \in user_table : u.token = token })
    IN  IF r = NoResultFound THEN None
        ELSE [id |-> r.id, name |-> r.name, leader_card_id |-> r.leader_card_id]

---------------------------------------------------------------------------
(* Results of a request *)

Returned(v) == [raised |-> "", value |-> v, room_id |-> 0, rows |-> {}]
ReturnedRoom(id) == [raised |-> "", value |-> "room_id", room_id |-> id, rows |-> {}]
Raised(e) == [raised |-> e, value |-> "", room_id |-> 0, rows |-> {}]

(* list[RoomInfo] of list_room *)
ReturnedList(rows) == [raised |-> "", value |-> "list", room_id |-> 0, rows |-> rows]

(* WaitRoomResult(status, room_user_list) *)
WaitRoomResult(status, room_user_list) ==
    [raised |-> "", value |-> status, room_id |-> 0, rows |-> room_user_list]

Call(op, token, room_id, live_id, select_difficulty) ==
    [op |-> op, token |-> token, room_id |-> room_id, live_id |-> live_id,
     select_difficulty |-> select_difficulty]

NoCall == Call("none", BadToken, 0, 0, Normal)

NoResponse == [call |-> NoCall, result |-> Returned("")]

Init ==
    /\ user_table = create_users
    /\ auto_increment = [room |-> 1, user |-> Cardinality(UserIds) + 1]
    /\ room = << >>
    /\ room_user = {}
    /\ pc = [p \in Procs |-> "idle"]
    /\ args = [p \in Procs |-> NoCall]
    /\ user = [p \in Procs |-> None]
    /\ row = [p \in Procs |-> None]
    /\ snap = [p \in Procs |-> {}]
    /\ ins = [p \in Procs |-> {}]
    /\ last = NoResponse

---------------------------------------------------------------------------
(* Transactions *)

(* A request ends: its result goes back to the caller. *)
Finish(call, res) == last' = [call |-> call, result |-> res]

(* The response of a finished request is handed over before the store is   *)
(* touched again: handing it over changes nothing in the store and nothing *)
(* in any transaction.                                                     *)
Delivered == last = NoResponse

Respond ==
    /\ ~Delivered
    /\ last' = NoResponse
    /\ UNCHANGED <<user_table, auto_increment, room, room_user, pc, args, user, row, snap, ins>>

(* A request answered with its transaction left open: no commit, no        *)
(* rollback, the row lock kept.                                            *)
EndTransactionOpen(p, res) ==
    /\ Finish(args[p], res)
    /\ UNCHANGED <<pc, args, user, row, snap, ins>>

(* A join_room transaction is over (committed by conn.commit(), rolled     *)
(* back by conn.rollback() or by the context manager on an exception): its *)
(* locks and its uncommitted rows are gone, the connection is free.        *)
EndTransaction(p, res) ==
    /\ Finish(args[p], res)
    /\ pc' = [pc EXCEPT ![p] = "idle"]
    /\ args' = [args EXCEPT ![p] = NoCall]
    /\ user' = [user EXCEPT ![p] = None]
    /\ row' = [row EXCEPT ![p] = None]
    /\ snap' = [snap EXCEPT ![p] = {}]
    /\ ins' = [ins EXCEPT ![p] = {}]

(* One lock for the whole room table instead of a lock per row *)
LockHoldersAnyRoom(rid) ==
    { q \in Procs : pc[q] \in {"locked", "inserted"} }

(* The row lock taken by the INSERT only: the locking read as a plain read *)
LockHoldersInserting(rid) ==
    { q \in Procs : pc[q] = "inserted" /\ args[q].room_id = rid }

(* The transactions that hold the row lock of room rid: taken by           *)
(* SELECT ... FOR UPDATE, held until commit or rollback.                   *)
LockHolders(rid) ==
    { q \in Procs : pc[q] \in {"locked", "inserted"} /\ args[q].room_id = rid }

(* The transactions that have inserted room rid and not yet committed: an  *)
(* uncommitted row is locked by the transaction that inserted it.          *)
InsertHolders(rid) ==
    { q \in Procs : pc[q] = "created" /\ row[q].room_id = rid }

(* The locking read without its lock (a plain SELECT): nobody ever waits. *)
RowLockFreeNoLock(rid) == TRUE

RowLockFree(rid) == LockHolders(rid) = {} /\ InsertHolders(rid) = {}

(* Column default of room.is_playing (the INSERT of _create_room does not  *)
(* set it).                                                                *)
IsPlayingDefault == FALSE

NewRoom(live_id) ==
    [live_id |-> live_id, joined_user_count |-> 1,
     max_user_count |-> MAX_ROOM_USER_COUNT, is_playing |-> IsPlayingDefault]

Membership(room_id, user_id, select_difficulty, is_host) ==
    [room_id |-> room_id, user_id |-> user_id,
     select_difficulty |-> select_difficulty, is_host |-> is_host]

(* The INSERT INTO room_user of _create_room with is_host=false *)
HostRowGuest(room_id, user_id, select_difficulty) ==
    Membership(room_id, user_id, select_difficulty, FALSE)

HostRow(room_id, user_id, select_difficulty) ==
    Membership(room_id, user_id, select_difficulty, TRUE)

(* lastrowid of the INSERT INTO room: the AUTO_INCREMENT key.  The counter *)
(* moves at the INSERT, before the commit.                                 *)
LastRowId == auto_increment.room

(* create_room, _get_user_by_token and INSERT INTO room: the key of the     *)
(* new row is handed out, the row is not committed.                        *)
CreateBegin(p, token, live_id, select_difficulty, maxRooms) ==
    LET u == get_user_by_token(token)
        call == Call("create", token, 0, live_id, select_difficulty)
    IN  /\ Delivered
        /\ pc[p] = "idle"
        /\ IF u = None
           THEN /\ Finish(call, Raised("InvalidToken"))
                /\ UNCHANGED <<auto_increment, pc, args, user, row>>
           ELSE /\ LastRowId <= maxRooms
                /\ auto_increment' = [auto_increment EXCEPT !.room = LastRowId + 1]
                /\ pc' = [pc EXCEPT ![p] = "created"]
                /\ args' = [args EXCEPT ![p] = call]
                /\ user' = [user EXCEPT ![p] = u]
                /\ row' = [row EXCEPT ![p] = [room_id |-> LastRowId]]
                /\ UNCHANGED last
        /\ UNCHANGED <<user_table, room, room_user, snap, ins>>

(* create_room, INSERT INTO room_user, return of lastrowid and the commit   *)
(* at the end of the engine.begin() block                                  *)
CreateCommit(p) ==
    /\ Delivered
    /\ pc[p] = "created"
    /\ room' = room @@ (row[p].room_id :> NewRoom(args[p].live_id))
    /\ room_user' = room_user
           \cup {HostRow(row[p].room_id, user[p].id, args[p].select_difficulty)}
    /\ EndTransaction(p, ReturnedRoom(row[p].room_id))
    /\ UNCHANGED <<user_table, auto_increment>>

(* The token of create_user: str(uuid.uuid4()), a token of no other user *)
NewToken(id) == TokenOf(id)

ReturnedToken(token) ==
    [raised |-> "", value |-> "token", room_id |-> 0, rows |-> {[token |-> token]}]

(* create_user, INSERT INTO user: the id is handed out, the row is not      *)
(* committed.                                                              *)
CreateUserBegin(p, name, leader_card_id, maxUsers) ==
    /\ Delivered
    /\ pc[p] = "idle"
    /\ auto_increment.user <= maxUsers
    /\ auto_increment' = [auto_increment EXCEPT !.user = @ + 1]
    /\ pc' = [pc EXCEPT ![p] = "user_created"]
    /\ args' = [args EXCEPT ![p] = Call("create_user", NewToken(auto_increment.user), 0, 0, Normal)]
    /\ row' = [row EXCEPT ![p] = [id |-> auto_increment.user,
                                  token |-> NewToken(auto_increment.user),
                                  name |-> name, leader_card_id |-> leader_card_id]]
    /\ UNCHANGED <<user_table, room, room_user, user, snap, ins, last>>

(* create_user, the commit at the end of the engine.begin() block and the   *)
(* return of the token                                                     *)
CreateUserCommit(p) ==
    /\ Delivered
    /\ pc[p] = "user_created"
    /\ user_table' = user_table \cup {row[p]}
    /\ EndTransaction(p, ReturnedToken(row[p].token))
    /\ UNCHANGED <<auto_increment, room, room_user>>

(* The table `user` after  UPDATE user SET name=, leader_card_id=           *)
(*                         WHERE token=:token                              *)
UpdatedUsers(token, name, leader_card_id) ==
    { IF u.token = token
      THEN [u EXCEPT !.name = name, !.leader_card_id = leader_card_id]
      ELSE u : u \in user_table }

(* update_user(token, name, leader_card_id): one transaction of one UPDATE; *)
(* a token of no user changes nothing and raises nothing.                  *)
update_user(token, name, leader_card_id) ==
    /\ Delivered
    /\ user_table' = UpdatedUsers(token, name, leader_card_id)
    /\ Finish(Call("update_user", token, 0, 0, Normal), Returned("None"))
    /\ UNCHANGED <<auto_increment, room, room_user, pc, args, user, row, snap, ins>>

(* The read view of a transaction is fixed by its first read: what was     *)
(* committed then.  Kept of it are the rows of room_user that name the     *)
(* user or the room of the call; _join_room reads the rows of its user,    *)
(* with SELECT user_id FROM room_user WHERE user_id=:user_id.              *)
ReadView(user_id, room_id) ==
    { m \in room_user : m.user_id = user_id \/ m.room_id = room_id }

(* join_room, statement 1: _get_user_by_token, the first read. *)
JoinBegin(p, token, room_id, select_difficulty) ==
    LET u == get_user_by_token(token)
        call == Call("join", token, room_id, 0, select_difficulty)
    IN  /\ Delivered
        /\ pc[p] = "idle"
        /\ IF u = None
           THEN /\ Finish(call, Raised("InvalidToken"))
                /\ UNCHANGED <<pc, args, user, snap>>
           ELSE /\ pc' = [pc EXCEPT ![p] = "select"]
                /\ args' = [args EXCEPT ![p] = call]
                /\ user' = [user EXCEPT ![p] = u]
                /\ snap' = [snap EXCEPT ![p] = ReadView(u.id, room_id)]
                /\ UNCHANGED last
        /\ UNCHANGED <<user_table, auto_increment, room, room_user, row, ins>>

(* The locking read without  room_id=:room_id  in its WHERE clause *)
SelectRoomForUpdateAnyRoom(room_id) ==
    { [joined_user_count |-> room[r].joined_user_count,
       max_user_count |-> room[r].max_user_count]
        : r \in { x \in DOMAIN room : room[x].is_playing = FALSE } }

(* The locking read without  is_playing=false  in its WHERE clause *)
SelectRoomForUpdateAnyStatus(room_id) ==
    { [joined_user_count |-> room[r].joined_user_count,
       max_user_count |-> room[r].max_user_count]
        : r \in { x \in DOMAIN room : x = room_id } }

(* The rows of  SELECT joined_user_count, max_user_count FROM room         *)
(*              WHERE room_id=:room_id AND is_playing=false FOR UPDATE     *)
SelectRoomForUpdate(room_id) ==
    { [joined_user_count |-> room[r].joined_user_count,
       max_user_count |-> room[r].max_user_count]
        : r \in { x \in DOMAIN room : x = room_id /\ room[x].is_playing = FALSE } }

(* join_room, statement 2: the locking read.  It waits while another       *)
(* transaction holds the lock of the row it has to read.                   *)
JoinSelectForUpdate(p) ==
    /\ Delivered
    /\ pc[p] = "select"
    /\ RowLockFree(args[p].room_id)
    /\ LET r == One(SelectRoomForUpdate(args[p].room_id))
       IN  IF r = NoResultFound
           THEN EndTransaction(p, Returned("Disbanded"))
           ELSE /\ pc' = [pc EXCEPT ![p] = "locked"]
                /\ row' = [row EXCEPT ![p] = r]
                /\ UNCHANGED <<args, user, snap, ins, last>>
    /\ UNCHANGED <<user_table, auto_increment, room, room_user>>

(* The capacity test of _join_room *)
RoomIsFull(r) == r.joined_user_count >= r.max_user_count

(* room_user is keyed by (room_id, user_id) *)
DuplicateKey(m) ==
    \E x \in room_user : x.room_id = m.room_id /\ x.user_id = m.user_id

JoinRow(p) ==
    Membership(args[p].room_id, user[p].id, args[p].select_difficulty, FALSE)

(* What _join_room writes to the store between the capacity test and the   *)
(* commit.                                                                 *)
JoinWrites(p) == {JoinRow(p)}

(* join_room, the capacity test and statement 3: INSERT INTO room_user *)
JoinInsert(p) ==
    /\ Delivered
    /\ pc[p] = "locked"
    /\ IF RoomIsFull(row[p])
       THEN EndTransaction(p, Returned("RoomFull"))
       ELSE IF DuplicateKey(JoinRow(p))
       THEN EndTransaction(p, Raised("IntegrityError"))
       ELSE /\ pc' = [pc EXCEPT ![p] = "inserted"]
            /\ ins' = [ins EXCEPT ![p] = JoinWrites(p)]
            /\ UNCHANGED <<args, user, row, snap, last>>
    /\ UNCHANGED <<user_table, auto_increment, room, room_user>>

(* The rows of  SELECT user_id FROM room_user WHERE user_id=:user_id  as   *)
(* the transaction sees them: its read view and its own insert.            *)
SelectUserRows(p) ==
    { m \in snap[p] \cup ins[p] : m.user_id = user[p].id }

(* join_room, statement 4 and the end of the transaction *)
JoinCommit(p) ==
    /\ Delivered
    /\ pc[p] = "inserted"
    /\ LET r == One(SelectUserRows(p))
       IN  IF r = NoResultFound
           THEN /\ EndTransaction(p, Returned("OtherError"))
                /\ UNCHANGED room_user
           ELSE IF r = MultipleResultsFound
           THEN /\ EndTransaction(p, Raised("MultipleResultsFound"))
                /\ UNCHANGED room_user
           ELSE /\ room_user' = room_user \cup ins[p]
                /\ EndTransaction(p, Returned("Ok"))
    /\ UNCHANGED <<user_table, auto_increment, room>>

(* The UPDATE of _start_room flipping is_playing instead of setting it *)
StartedRoomsToggle(room_id) ==
    [r \in DOMAIN room |->
        IF r = room_id THEN [room[r] EXCEPT !.is_playing = ~room[r].is_playing]
        ELSE room[r]]

(* The table `room` after  UPDATE room SET is_playing=true WHERE room_id=  *)
StartedRooms(room_id) ==
    [r \in DOMAIN room |->
        IF r = room_id THEN [room[r] EXCEPT !.is_playing = TRUE] ELSE room[r]]

(* start_room(room_id): one transaction.  The UPDATE needs the row lock of *)
(* the row it changes.                                                     *)
start_room(room_id) ==
    /\ Delivered
    /\ RowLockFree(room_id)
    /\ room' = StartedRooms(room_id)
    /\ Finish(Call("start", BadToken, room_id, 0, Normal), Returned("None"))
    /\ UNCHANGED <<user_table, auto_increment, room_user, pc, args, user, row, snap, ins>>

(* The RoomInfo rows of _list_room *)
RoomInfo(r) ==
    [room_id |-> r, live_id |-> room[r].live_id,
     joined_user_count |-> room[r].joined_user_count,
     max_user_count |-> room[r].max_user_count]

(* _list_room without  is_playing=false  in its WHERE clauses *)
SelectRoomListAnyStatus(live_id) ==
    IF live_id = LIVE_ID_NULL
    THEN { r \in DOMAIN room : room[r].joined_user_count < room[r].max_user_count }
    ELSE { r \in DOMAIN room : /\ room[r].joined_user_count < room[r].max_user_count
                               /\ room[r].live_id = live_id }

(* The room_ids of the two SELECTs of _list_room *)
SelectRoomList(live_id) ==
    IF live_id = LIVE_ID_NULL
    THEN { r \in DOMAIN room : /\ room[r].joined_user_count < room[r].max_user_count
                               /\ room[r].is_playing = FALSE }
    ELSE { r \in DOMAIN room : /\ room[r].joined_user_count < room[r].max_user_count
                               /\ room[r].live_id = live_id
                               /\ room[r].is_playing = FALSE }

(* list_room(live_id): one read-only transaction *)
list_room(live_id) ==
    /\ Delivered
    /\ Finish(Call("list", BadToken, 0, live_id, Normal),
              ReturnedList({ RoomInfo(r) : r \in SelectRoomList(live_id) }))
    /\ UNCHANGED <<user_table, auto_increment, room, room_user, pc, args, user, row, snap, ins>>

(* _wait_room without  room_id=:room_id  in its first WHERE clause *)
SelectIsPlayingAnyRoom(room_id) ==
    { [room_id |-> r, is_playing |-> room[r].is_playing] : r \in DOMAIN room }

(* The rows of  SELECT is_playing FROM room WHERE room_id=:room_id *)
SelectIsPlaying(room_id) ==
    { [room_id |-> r, is_playing |-> room[r].is_playing]
        : r \in { x \in DOMAIN room : x = room_id } }

(* The rows of  SELECT name, leader_card_id FROM user WHERE id=:user_id *)
SelectUserById(user_id) ==
    { [id |-> u.id, name |-> u.name, leader_card_id |-> u.leader_card_id]
        : u \in { x \in user_table : x.id = user_id } }

(* The RoomUser built from a room_user row, a user row and is_me *)
RoomUser(m, u, is_me) ==
    [user_id |-> m.user_id, name |-> u.name, leader_card_id |-> u.leader_card_id,
     select_difficulty |-> m.select_difficulty, is_me |-> is_me, is_host |-> m.is_host]

(* The value of _wait_room once its user is resolved.  The user row of     *)
(* every member is selected with id = room_id (model.py:291-295).          *)
WaitRoomValue(me, room_id) ==
    LET r == One(SelectIsPlaying(room_id))
        rows == { m \in room_user : m.room_id = room_id }
        u == One(SelectUserById(room_id))
    IN  IF r = NoResultFound
        THEN WaitRoomResult("Dissolution", {})
        ELSE IF rows # {} /\ u = NoResultFound
        THEN Raised("NoResultFound")
        ELSE WaitRoomResult(IF r.is_playing THEN "LiveStart" ELSE "Waiting",
                            { RoomUser(m, u, m.user_id = me.id) : m \in rows })

(* wait_room(token, room_id): one read-only transaction *)
wait_room(token, room_id) ==
    LET me == get_user_by_token(token)
    IN  /\ Delivered
        /\ Finish(Call("wait", token, room_id, 0, Normal),
                  IF me = None THEN Raised("InvalidToken") ELSE WaitRoomValue(me, room_id))
        /\ UNCHANGED <<user_table, auto_increment, room, room_user, pc, args, user, row, snap, ins>>

---------------------------------------------------------------------------
(* Spec: create, join and start with two connections, few users *)

Tokens == { TokenOf(u) : u \in 1..NUsers } \cup {BadToken}
RoomIds == 1..MaxRooms
LiveIds == {1001}

Next ==
    \/ \E p \in Procs, t \in Tokens, l \in LiveIds : CreateBegin(p, t, l, Normal, MaxRooms)
    \/ \E p \in Procs : CreateCommit(p)
    \/ \E p \in Procs, t \in Tokens, r \in RoomIds, d \in LiveDifficulty : JoinBegin(p, t, r, d)
    \/ \E p \in Procs : JoinSelectForUpdate(p)
    \/ \E p \in Procs : JoinInsert(p)
    \/ \E p \in Procs : JoinCommit(p)
    \/ \E r \in RoomIds : start_room(r)
    \/ Respond

Spec == Init /\ [][Next]_vars

---------------------------------------------------------------------------
(* SpecCap: one room and one user more than a room holds; create and join  *)

CapRooms == 1
CapTokens == { TokenOf(u) : u \in 1..(MAX_ROOM_USER_COUNT + 1) }
CapRoomIds == 1..CapRooms

NextCap ==
    \/ \E p \in Procs, t \in CapTokens, l \in LiveIds : CreateBegin(p, t, l, Normal, CapRooms)
    \/ \E p \in Procs : CreateCommit(p)
    \/ \E p \in Procs, t \in CapTokens, r \in CapRoomIds : JoinBegin(p, t, r, Hard)
    \/ \E p \in Procs : JoinSelectForUpdate(p)
    \/ \E p \in Procs : JoinInsert(p)
    \/ \E p \in Procs : JoinCommit(p)
    \/ Respond

SpecCap == Init /\ [][NextCap]_vars

---------------------------------------------------------------------------
(* SpecQuery: create on two tracks, join, start, update_user and the       *)
(* read-only requests list and wait                                        *)

(* The name update_user gives in SpecQuery *)
Renamed == <<"renamed", 0>>

QueryRooms == 2
QueryProcs == 1
QueryRoomIds == 1..(QueryRooms + 1)
QueryLiveIds == {1001, 1002}

NextQuery ==
    \/ \E p \in 1..QueryProcs, t \in Tokens, l \in QueryLiveIds : CreateBegin(p, t, l, Normal, QueryRooms)
    \/ \E p \in 1..QueryProcs : CreateCommit(p)
    \/ update_user(TokenOf(1), Renamed, 42)
    \/ \E p \in 1..QueryProcs, t \in Tokens, r \in 1..QueryRooms : JoinBegin(p, t, r, Hard)
    \/ \E p \in 1..QueryProcs : JoinSelectForUpdate(p)
    \/ \E p \in 1..QueryProcs : JoinInsert(p)
    \/ \E p \in 1..QueryProcs : JoinCommit(p)
    \/ \E r \in 1..QueryRooms : start_room(r)
    \/ \E l \in QueryLiveIds \cup {LIVE_ID_NULL} : list_room(l)
    \/ \E t \in Tokens, r \in QueryRoomIds : wait_room(t, r)
    \/ Respond

SpecQuery == Init /\ [][NextQuery]_vars

---------------------------------------------------------------------------
(* Properties *)

RowsOf(table, room_id) == { m \in table : m.room_id = room_id }
RoomRows(room_id) == RowsOf(room_user, room_id)
UserRows(user_id) == { m \in room_user : m.user_id = user_id }

InJoin(p) == pc[p] \in {"select", "locked", "inserted"}

(* This step ends the join_room transaction of connection p *)
JoinEnds(p) == InJoin(p) /\ pc'[p] = "idle"

(* This step is the locking read of connection p *)
LockingRead(p) == pc[p] = "select" /\ pc'[p] # "select"

Ok == Returned("Ok")
RoomFull == Returned("RoomFull")
Disbanded == Returned("Disbanded")
OtherError == Returned("OtherError")

(* C1: in every reachable state, joined_user_count of each room equals the *)
(* number of room_user rows stored for that room.                          *)
C1_FilledCountIsRowCount ==
    \A r \in DOMAIN room : room[r].joined_user_count = Cardinality(RoomRows(r))

(* C2: in every reachable state, no room has more room_user rows than its  *)
(* max_user_count.                                                         *)
C2_NeverOverCapacity ==
    \A r \in DOMAIN room : Cardinality(RoomRows(r)) <= room[r].max_user_count

(* A join that began when its room was open with exactly one free seat,    *)
(* by a user who was seated nowhere then.                                  *)
BeganOnLastSeat(q) ==
    /\ InJoin(q)
    /\ args[q].room_id \in DOMAIN room
    /\ ~room[args[q].room_id].is_playing
    /\ Cardinality(RowsOf(snap[q], args[q].room_id)) = room[args[q].room_id].max_user_count - 1
    /\ \A m \in snap[q] : m.user_id # user[q].id

(* C3: of the joins that run concurrently against an open room with one    *)
(* free seat, by distinct users seated nowhere, exactly one returns Ok and *)
(* every other one RoomFull: a join that ends while the seat is still free *)
(* returns Ok, a join that ends after another user's concurrent join has   *)
(* taken the seat returns RoomFull.                                        *)
C3_LastSeatOneWinner ==
    [][\A q \in Procs :
        (/\ BeganOnLastSeat(q)
         /\ JoinEnds(q)
         /\ UserRows(user[q].id) = {})
        => IF RoomRows(args[q].room_id) = RowsOf(snap[q], args[q].room_id)
           THEN last'.result = Ok
           ELSE last'.result = RoomFull]_vars

(* The join of connection p is one by a user who holds no membership,      *)
(* against an existing open room with joined_user_count < max_user_count.  *)
AdmissibleJoin(p) ==
    /\ InJoin(p)
    /\ args[p].room_id \in DOMAIN room
    /\ ~room[args[p].room_id].is_playing
    /\ room[args[p].room_id].joined_user_count < room[args[p].room_id].max_user_count
    /\ \A m \in snap[p] \cup room_user : m.user_id # user[p].id

(* C4: a join by a user who holds no membership against an existing open   *)
(* room with joined_user_count < max_user_count returns Ok, commits        *)
(* exactly one new row (room, user, is_host = false, the given difficulty) *)
(* and raises the room's joined_user_count by one.                         *)
C4_JoinAdmits ==
    [][\A p \in Procs :
        (AdmissibleJoin(p) /\ JoinEnds(p))
        => /\ last'.result = Ok
           /\ room_user' = room_user \cup
                 {Membership(args[p].room_id, user[p].id, args[p].select_difficulty, FALSE)}
           /\ Cardinality(room_user') = Cardinality(room_user) + 1
           /\ room'[args[p].room_id].joined_user_count
                 = room[args[p].room_id].joined_user_count + 1]_vars

(* A join by a fifth user: it began when its open room held its creator    *)
(* and three joined users.                                                 *)
BeganOnFullRoom(q) ==
    /\ InJoin(q)
    /\ args[q].room_id \in DOMAIN room
    /\ ~room[args[q].room_id].is_playing
    /\ Cardinality(RowsOf(snap[q], args[q].room_id)) = MAX_ROOM_USER_COUNT
    /\ Cardinality({ m \in RowsOf(snap[q], args[q].room_id) : m.is_host }) = 1
    /\ \A m \in snap[q] : m.user_id # user[q].id

(* C5: once the creator and three joined users sit in a room, a join by a  *)
(* fifth user returns RoomFull and adds no membership.                     *)
C5_FifthJoinRoomFull ==
    [][\A q \in Procs :
        (BeganOnFullRoom(q) /\ JoinEnds(q))
        => (last'.result = RoomFull /\ room_user' = room_user)]_vars

(* C6: a join with a valid token whose locking read finds no room row for  *)
(* its room_id returns the value Disbanded, raises nothing and leaves the  *)
(* tables room and room_user as they were.                                 *)
C6_JoinMissingRoomDisbanded ==
    [][\A p \in Procs :
        (LockingRead(p) /\ args[p].room_id \notin DOMAIN room)
        => /\ pc'[p] = "idle"
           /\ last' = [call |-> args[p], result |-> Disbanded]
           /\ last'.result.raised = ""
           /\ room' = room
           /\ room_user' = room_user]_vars

(* A join on a room that does not exist has returned Disbanded *)
C6_Witness ==
    /\ last.call.op = "join"
    /\ last.call.token \in { u.token : u \in user_table }
    /\ last.call.room_id \notin DOMAIN room
    /\ last.result = Disbanded

(* The locking read of connection p is on an existing room that is Playing *)
ReadsPlayingRoom(p) ==
    /\ LockingRead(p)
    /\ args[p].room_id \in DOMAIN room
    /\ room[args[p].room_id].is_playing

(* C7, as claimed: a join with a valid token against an existing room that *)
(* is Playing returns RoomFull.                                            *)
C7_JoinPlayingRoomFull ==
    [][\A p \in Procs : ReadsPlayingRoom(p) => last'.result = RoomFull]_vars

(* C7, amended: a join with a valid token against an existing room that is *)
(* Playing returns Disbanded, and adds no membership.                      *)
C7_JoinPlayingDisbanded ==
    [][\A p \in Procs :
        ReadsPlayingRoom(p)
        => /\ pc'[p] = "idle"
           /\ last' = [call |-> args[p], result |-> Disbanded]
           /\ room_user' = room_user]_vars

(* A join on an existing, Playing room has returned Disbanded *)
C7_Witness ==
    /\ last.call.op = "join"
    /\ last.call.room_id \in DOMAIN room
    /\ room[last.call.room_id].is_playing
    /\ last.result = Disbanded

(* C8: once start_room has committed for a room (is_playing), the set of   *)
(* room_user rows of that room never changes again.                        *)
C8_PlayingRoomKeepsMembers ==
    [][\A r \in DOMAIN room :
        room[r].is_playing => RowsOf(room_user', r) = RowsOf(room_user, r)]_vars

(* A join by a user seated nowhere has ended on a Playing room with spare  *)
(* capacity, while another join waits for the lock of that room.           *)
C8_Witness ==
    /\ last.call.op = "join"
    /\ last.call.room_id \in DOMAIN room
    /\ room[last.call.room_id].is_playing
    /\ Cardinality(RoomRows(last.call.room_id)) < MAX_ROOM_USER_COUNT
    /\ \A m \in room_user : TokenOf(m.user_id) # last.call.token
    /\ last.call.token # BadToken
    /\ \E q \in Procs : pc[q] = "select" /\ args[q].room_id = last.call.room_id

(* C9: in every reachable state each user holds at most one room_user row  *)
(* across all rooms.                                                       *)
C9_AtMostOneMembership ==
    \A u \in UserIds : Cardinality(UserRows(u)) <= 1

(* C10: a join by a user who already holds a membership, against an open   *)
(* room with spare capacity, returns the value OtherError, and the row it  *)
(* inserted is rolled back.                                                *)
C10_SeatedUserOtherError ==
    [][\A p \in Procs :
        (/\ pc[p] = "inserted"
         /\ \E m \in snap[p] : m.user_id = user[p].id
         /\ JoinEnds(p))
        => (last'.result = OtherError /\ room_user' = room_user)]_vars

---------------------------------------------------------------------------
(* SpecCreate: overlapping create_room transactions on two tracks with     *)
(* either difficulty, and start                                            *)

CreateRooms == 3

NextCreate ==
    \/ \E p \in Procs, t \in Tokens, l \in QueryLiveIds, d \in LiveDifficulty :
           CreateBegin(p, t, l, d, CreateRooms)
    \/ \E p \in Procs : CreateCommit(p)
    \/ \E r \in 1..CreateRooms : start_room(r)
    \/ Respond

SpecCreate == Init /\ [][NextCreate]_vars

---------------------------------------------------------------------------
(* SpecWait: one user creates more rooms than there are users, starts     *)
(* them and waits in them; one more user may be created                    *)

WaitRooms == 11
WaitRoomIds == 1..WaitRooms

NextWait ==
    \/ CreateBegin(1, TokenOf(1), 1001, Normal, WaitRooms)
    \/ CreateCommit(1)
    \/ CreateUserBegin(1, <<"room_user", WaitRooms - 1>>, 1000, WaitRooms)
    \/ CreateUserCommit(1)
    \/ \E r \in WaitRoomIds : start_room(r)
    \/ \E r \in WaitRoomIds : wait_room(TokenOf(1), r)
    \/ Respond

SpecWait == Init /\ [][NextWait]_vars

---------------------------------------------------------------------------
(* SpecLive: joins under fair scheduling.  A step of a transaction is      *)
(* disabled only while a response is handed over or while another join     *)
(* holds the row lock it asks for; the server threads keep running and the *)
(* lock queue of the store grants a waiting request once the holder has    *)
(* released, so a step that is possible again and again is taken.          *)

LiveRooms == 2
LiveTokens == {TokenOf(u) : u \in 1..NUsers}

NextLive ==
    \/ \E p \in Procs : CreateBegin(p, TokenOf(1), 1001, Normal, LiveRooms)
    \/ \E p \in Procs : CreateCommit(p)
    \/ \E p \in Procs, t \in LiveTokens, r \in 1..LiveRooms : JoinBegin(p, t, r, Hard)
    \/ \E p \in Procs : JoinSelectForUpdate(p)
    \/ \E p \in Procs : JoinInsert(p)
    \/ \E p \in Procs : JoinCommit(p)
    \/ \E r \in 1..LiveRooms : start_room(r)
    \/ Respond

Fairness ==
    /\ WF_vars(Respond)
    /\ \A p \in Procs : SF_vars(JoinSelectForUpdate(p))
    /\ \A p \in Procs : SF_vars(JoinInsert(p))
    /\ \A p \in Procs : SF_vars(JoinCommit(p))
    /\ \A p \in Procs : SF_vars(CreateCommit(p))

SpecLive == Init /\ [][NextLive]_vars /\ Fairness

---------------------------------------------------------------------------
(* Claims about the frame of join, create, wait, start and list *)

(* A step that hands a response to a request of kind op *)
Responds(op) == last = NoResponse /\ last' # NoResponse /\ last'.call.op = op

(* A join that ends without Ok, and every step of a join before its end,    *)
(* leaves the committed room and room_user tables alone.                    *)
FailedJoinFrame ==
    /\ (Responds("join") /\ last'.result # Ok) => (room' = room /\ room_user' = room_user)
    /\ (\E p \in Procs : InJoin(p) /\ pc'[p] # pc[p] /\ last' = NoResponse)
           => (room' = room /\ room_user' = room_user)

(* A join that makes membership rows visible raises joined_user_count of    *)
(* each room by the number of rows it added to that room.                   *)
JoinInsertCounted ==
    (Responds("join") /\ room_user' # room_user) =>
        \A r \in DOMAIN room :
            room'[r].joined_user_count - room[r].joined_user_count
                = Cardinality(RowsOf(room_user', r)) - Cardinality(RowsOf(room_user, r))

(* C11: every join that does not return Ok leaves all room rows and all     *)
(* membership rows as they were, and no membership insert becomes visible   *)
(* to other transactions without the matching joined_user_count increment.  *)
C11_FailedJoinNoPartialWrite == [][FailedJoinFrame /\ JoinInsertCounted]_vars

(* The first half of C11 alone: joins that do not return Ok change nothing. *)
FailedJoinChangesNothing == [][FailedJoinFrame]_vars

(* What a create request that has just been answered did *)
CreateAdds ==
    LET c == last'.call
        u == get_user_by_token(c.token)
        id == last'.result.room_id
    IN  IF u = None
        THEN /\ last'.result = Raised("InvalidToken")
             /\ room' = room
             /\ room_user' = room_user
        ELSE /\ last'.result = ReturnedRoom(id)
             /\ id \notin DOMAIN room
             /\ DOMAIN room' = DOMAIN room \cup {id}
             /\ \A r \in DOMAIN room : room'[r] = room[r]
             /\ room'[id] = [live_id |-> c.live_id, joined_user_count |-> 1,
                             max_user_count |-> 4, is_playing |-> FALSE]
             /\ Membership(id, u.id, c.select_difficulty, TRUE) \notin room_user
             /\ room_user' = room_user
                    \cup {Membership(id, u.id, c.select_difficulty, TRUE)}

(* C12: a create with a valid token adds, in one step, one room with a     *)
(* fresh room_id, max_user_count 4, joined_user_count 1, not playing, on   *)
(* the given live_id, and exactly one room_user row for the creator with   *)
(* is_host = true and the given difficulty; a create with an unresolved    *)
(* token raises InvalidToken and adds neither.                             *)
C12_CreateAddsRoomAndHost == [][Responds("create") => CreateAdds]_vars

(* The second create_room to begin commits first, on the other track *)
C12_Witness ==
    /\ last.call.op = "create"
    /\ last.call.select_difficulty = Hard
    /\ last.call.live_id = 1002
    /\ last.result = ReturnedRoom(2)
    /\ Membership(2, 2, Hard, TRUE) \in room_user
    /\ 1 \notin DOMAIN room
    /\ \E p \in Procs : pc[p] = "created" /\ row[p].room_id = 1

(* C13: a wait with a valid token on a room_id that names no room returns  *)
(* Dissolution with an empty member list, raises nothing and changes no    *)
(* state.                                                                  *)
C13_WaitMissingRoomDissolution ==
    [][(/\ Responds("wait")
        /\ get_user_by_token(last'.call.token) # None
        /\ last'.call.room_id \notin DOMAIN room)
       => (/\ last'.result = WaitRoomResult("Dissolution", {})
           /\ UNCHANGED <<user_table, auto_increment, room, room_user, pc, args, user, row, snap, ins>>)]_vars

C13_Witness ==
    /\ last.call.op = "wait"
    /\ get_user_by_token(last.call.token) # None
    /\ last.call.room_id \notin DOMAIN room
    /\ DOMAIN room # {}
    /\ last.result.value = "Dissolution"
    /\ last.result.rows = {}

(* The user of a token is seated in the room *)
IsMember(token, room_id) ==
    LET u == get_user_by_token(token)
    IN  u # None /\ \E m \in room_user : m.room_id = room_id /\ m.user_id = u.id

(* A wait by a member of an existing room has just been answered *)
MemberWaits ==
    /\ Responds("wait")
    /\ last'.call.room_id \in DOMAIN room
    /\ IsMember(last'.call.token, last'.call.room_id)

(* C14: a wait by a member of an existing room returns Waiting as long as  *)
(* no start of the room has committed and LiveStart ever after; a room     *)
(* that is playing stays playing, so Waiting never comes back.             *)
C14_WaitStatusFollowsStart ==
    [][/\ MemberWaits =>
            /\ last'.result.raised = ""
            /\ last'.result.value =
                   IF room[last'.call.room_id].is_playing THEN "LiveStart" ELSE "Waiting"
       /\ \A r \in DOMAIN room : room[r].is_playing => room'[r].is_playing]_vars

(* The user row with the given id *)
UserOf(user_id) == CHOOSE u \in user_table : u.id = user_id

(* The member entry the caller `me` is owed for the room_user row m *)
MemberEntry(m, me) ==
    [user_id |-> m.user_id, name |-> UserOf(m.user_id).name,
     leader_card_id |-> UserOf(m.user_id).leader_card_id,
     select_difficulty |-> m.select_difficulty,
     is_me |-> (m.user_id = me.id), is_host |-> m.is_host]

(* C15: a wait with a valid token on an existing room succeeds and returns *)
(* exactly one entry per room_user row of the room, carrying the row's     *)
(* user_id, select_difficulty and is_host, the name and leader_card_id of  *)
(* the user with that user_id, and is_me = true exactly for the caller.    *)
C15_WaitListsMembers ==
    [][(/\ Responds("wait")
        /\ get_user_by_token(last'.call.token) # None
        /\ last'.call.room_id \in DOMAIN room)
       => (/\ last'.result.raised = ""
           /\ last'.result.rows =
                  { MemberEntry(m, get_user_by_token(last'.call.token))
                      : m \in RowsOf(room_user, last'.call.room_id) }
           /\ Cardinality(last'.result.rows)
                  = Cardinality(RowsOf(room_user, last'.call.room_id)))]_vars

(* What a start request that has just been answered did *)
StartSetsPlaying ==
    LET r == last'.call.room_id
    IN  /\ last'.result = Returned("None")
        /\ room_user' = room_user
        /\ DOMAIN room' = DOMAIN room
        /\ \A x \in DOMAIN room :
               room'[x] = IF x = r THEN [room[x] EXCEPT !.is_playing = TRUE] ELSE room[x]
        /\ (r \in DOMAIN room /\ room[r].is_playing) =>
               UNCHANGED <<user_table, auto_increment, room, room_user, pc, args, user, row, snap, ins>>

(* C16: start is idempotent: it sets the room to playing whoever calls it  *)
(* and whatever the room's status is, and a start of a room that is        *)
(* already playing succeeds and leaves the whole state as it was.          *)
C16_StartIdempotent == [][Responds("start") => StartSetsPlaying]_vars

C16_Witness ==
    \E r \in DOMAIN room :
        /\ room[r].is_playing
        /\ Cardinality(RowsOf(room_user, r)) > 1
        /\ ENABLED start_room(r)

(* The rooms list_room(f) is to return: open, with a free seat by          *)
(* joined_user_count, on live_id f unless f is LIVE_ID_NULL                *)
Listed(f) ==
    { r \in DOMAIN room :
        /\ ~room[r].is_playing
        /\ room[r].joined_user_count < room[r].max_user_count
        /\ (f = 0 \/ room[r].live_id = f) }

(* C17: list(f) returns exactly the existing rooms that are not playing    *)
(* and have joined_user_count < max_user_count, only those on live_id f    *)
(* unless f is 0 (no filter), and changes no state.                        *)
C17_ListOpenRooms ==
    [][Responds("list") =>
        /\ last'.result.raised = ""
        /\ last'.result.rows =
               { [room_id |-> r, live_id |-> room[r].live_id,
                  joined_user_count |-> room[r].joined_user_count,
                  max_user_count |-> room[r].max_user_count]
                   : r \in Listed(last'.call.live_id) }
        /\ Cardinality(last'.result.rows) = Cardinality(Listed(last'.call.live_id))
        /\ UNCHANGED <<user_table, auto_increment, room, room_user, pc, args, user, row, snap, ins>>]_vars

C17_Witness ==
    /\ last.call.op = "list"
    /\ last.call.live_id = 1002
    /\ Cardinality(last.result.rows) = 1
    /\ \E r \in DOMAIN room : room[r].live_id = 1001 /\ ~room[r].is_playing
    /\ \E r \in DOMAIN room : room[r].live_id = 1002 /\ ~room[r].is_playing

(* Between its locking read and its commit or rollback *)
InCriticalSection(p) == pc[p] \in {"locked", "inserted"}

(* C18: joins on one room exclude each other over the critical section    *)
(* from the locking read of the room row to commit or rollback: while one  *)
(* join is in it, no other join of the same room is past its locking read, *)
(* so none checks the capacity or inserts its row.                         *)
C18_JoinsMutuallyExclusive ==
    \A p \in Procs, q \in Procs :
        (p # q /\ InCriticalSection(p) /\ InCriticalSection(q))
            => args[p].room_id # args[q].room_id

C18_Witness ==
    \E p \in Procs, q \in Procs :
        /\ p # q
        /\ pc[p] = "inserted"
        /\ pc[q] = "select"
        /\ args[q].room_id = args[p].room_id
        /\ Delivered
        /\ ~ENABLED JoinSelectForUpdate(q)

(* C19: under fair scheduling of the transactions' steps, a join that has  *)
(* taken the row lock ends (commit, rollback or exception) and with that   *)
(* releases the lock, a join waiting for the lock gets past its locking    *)
(* read, and every join that has begun ends with an outcome.               *)
C19_JoinTerminates ==
    \A p \in Procs :
        /\ InCriticalSection(p) ~> ~InCriticalSection(p)
        /\ (pc[p] = "select") ~> (pc[p] # "select")
        /\ InJoin(p) ~> (pc[p] = "idle")

C19_Witness ==
    /\ last.call.op = "join"
    /\ last.result.raised # ""
    /\ \E q \in Procs : /\ pc[q] = "select"
                        /\ args[q].room_id = last.call.room_id
                        /\ LockHolders(last.call.room_id) = {}

(* Room r2 and its members are the same after the step *)
RoomUntouched(r2) ==
    /\ r2 \in DOMAIN room'
    /\ room'[r2] = room[r2]
    /\ RowsOf(room_user', r2) = RowsOf(room_user, r2)

(* A step of a join or of a start on room r leaves every other room alone *)
OtherRoomsFrame ==
    /\ \A p \in Procs :
           (InJoin(p) /\ pc'[p] # pc[p]) =>
               \A r2 \in DOMAIN room \ {args[p].room_id} : RoomUntouched(r2)
    /\ \A p \in Procs :
           (pc[p] = "idle" /\ pc'[p] = "select") => (room' = room /\ room_user' = room_user)
    /\ (Responds("join") /\ pc' = pc) => (room' = room /\ room_user' = room_user)
    /\ Responds("start") =>
           \A r2 \in DOMAIN room \ {last'.call.room_id} : RoomUntouched(r2)

(* A join at its locking read that no join of its own room keeps out, and  *)
(* whose room is not an uncommitted insert, can take the lock, whatever    *)
(* joins of other rooms hold.                                              *)
NoWaitAcrossRooms ==
    \A q \in Procs :
        (/\ pc[q] = "select"
         /\ Delivered
         /\ InsertHolders(args[q].room_id) = {}
         /\ \A p \in Procs \ {q} :
                InCriticalSection(p) => args[p].room_id # args[q].room_id)
            => ENABLED JoinSelectForUpdate(q)

(* C20: rooms are independent: a join or a start on room R, whatever its   *)
(* outcome, leaves the row and the membership rows of every other room     *)
(* unchanged, and a join on R never waits for a lock held by a join on     *)
(* another room.                                                           *)
C20_RoomsIndependent == []NoWaitAcrossRooms /\ [][OtherRoomsFrame]_vars

C20_Witness ==
    \E p \in Procs, q \in Procs :
        /\ pc[p] = "inserted"
        /\ pc[q] = "locked"
        /\ args[p].room_id # args[q].room_id
        /\ room[args[p].room_id].is_playing = FALSE

===========================================================================
